---------------------------- MODULE Spec2Model ----------------------------
(***************************************************************************)
(* Docker Hub pull-count tracker.                                          *)
(*                                                                         *)
(*   tracker.py         the collector: polls the registry for each tracked *)
(*                      repository and appends a sample to pull_counts.csv *)
(*   visualize_data.py  the visualizer: loads pull_counts.csv, normalizes  *)
(*                      the timestamps, writes one chart per repository    *)
(*                      and prints summary statistics                      *)
(*                                                                         *)
(* Time is counted in whole hours.  A timestamp text of the table is a     *)
(* record [valid, aware, off, wall]: whether it parses, whether it carries *)
(* a UTC offset, that offset, and the wall-clock reading.                  *)
(***************************************************************************)
EXTENDS Integers, Sequences, FiniteSets, TLC

VARIABLES
    file,         \* pull_counts.csv: [exists, lines]
    charts,       \* the chart image files on disk: a set of [name, namespace, repository, points]
    cpc,          \* collector: "idle" | "loop" | "done" | "crashed"
    i,            \* collector: index of the next repository of the list
    console,      \* collector: the lines printed by the current run
    trace,        \* collector: what the environment answered in the current run
    fileAtStart,  \* the table as the current collector run found it
    runs,         \* collector runs started so far
    savedOk,      \* save_to_csv calls that returned normally so far
    createdEmpty, \* a failed save_to_csv call created the file, leaving it without lines
    vpc,          \* visualizer: "idle" | "loaded" | "charted" | "done" | "failed" | "crashed"
    df,           \* visualizer: the loaded frame [ok, columns, rows]
    vout,         \* visualizer: the kinds of the lines printed by the current run
    summary,      \* visualizer: the statistics printed by create_summary_stats
    saved         \* visualizer: the chart files written by the current run, in order

vars == <<file, charts, cpc, i, console, trace, fileAtStart, runs, savedOk,
          createdEmpty, vpc, df, vout, summary, saved>>

collectorVars == <<cpc, i, console, trace, fileAtStart, runs, savedOk, createdEmpty>>
visualizerVars == <<vpc, df, vout, summary, saved, charts>>

----------------------------------------------------------------------------
(* Bounds of the model *)

MaxRuns == 1          \* collector runs
MaxTime == 1          \* the collector's clock reads 0..MaxTime
MaxRows == 2          \* sample rows of a table handed to the visualizer
DstStart == 3         \* instants from DstStart on are daylight-saving time

----------------------------------------------------------------------------
(* tracker.py: configuration *)

namespace == "lmcache"
repositories == <<"vllm-openai", "lmstack-router">>

(* The values the registry may report. *)
PullCounts == {100, 150}

----------------------------------------------------------------------------
(* The table file *)

Range(s) == {s[k] : k \in 1..Len(s)}

IsPrefix(s, t) == Len(s) <= Len(t) /\ \A k \in 1..Len(s) : s[k] = t[k]

NoText == [valid |-> FALSE, aware |-> FALSE, off |-> 0, wall |-> 0]

HeaderCols == <<"timestamp", "namespace", "repository", "pull_count">>

HeaderLine(cols) ==
    [kind |-> "header", cols |-> cols, timestamp |-> NoText,
     namespace |-> "", repository |-> "", pull_count |-> 0]

RowLine(timestamp, ns, repo, pull_count) ==
    [kind |-> "row", cols |-> <<>>, timestamp |-> timestamp,
     namespace |-> ns, repository |-> repo, pull_count |-> pull_count]

NoFile == [exists |-> FALSE, lines |-> <<>>]

----------------------------------------------------------------------------
(* tracker.py: get_pull_count *)

JInt(n) == [type |-> "int", n |-> n]
JNull == [type |-> "null", n |-> 0]

NotJson == [json |-> FALSE, has |-> FALSE, pull_count |-> JNull]
EmptyObject == [json |-> TRUE, has |-> FALSE, pull_count |-> JNull]
Object(v) == [json |-> TRUE, has |-> TRUE, pull_count |-> v]

Bodies == {NotJson, EmptyObject, Object(JNull)} \cup {Object(JInt(n)) : n \in PullCounts}

Statuses == {200, 300, 404, 500}

NetworkError == [net |-> "error", status |-> 0, body |-> NotJson]

Responses ==
    {NetworkError} \cup {[net |-> "ok", status |-> s, body |-> b] : s \in Statuses, b \in Bodies}

raise_for_status_never(status) == FALSE

(* requests' Response.raise_for_status raises HTTPError for the client and *)
(* server error statuses, 400..599, and for no other.                      *)
raise_for_status(status) == 400 <= status /\ status < 600

(* data.get("pull_count", 0) *)
get_default(body) == IF body.has THEN body.pull_count ELSE JInt(0)

(* The result is [exc, value]: the exception raised ("none": it returned). *)
get_pull_count(resp) ==
    IF resp.net = "error" THEN [exc |-> "ConnectionError", value |-> JNull]
    ELSE IF raise_for_status(resp.status) THEN [exc |-> "HTTPError", value |-> JNull]
    ELSE IF ~resp.body.json THEN [exc |-> "JSONDecodeError", value |-> JNull]
    ELSE [exc |-> "none", value |-> get_default(resp.body)]

----------------------------------------------------------------------------
(* tracker.py: save_to_csv *)

(* datetime.now().isoformat(): the local wall clock, without zone. *)
isoformat(now) == [valid |-> TRUE, aware |-> FALSE, off |-> 0, wall |-> now]

IoOutcomes == {"ok", "open_error", "write_error"}

OpenTruncate(f) == <<>>

(* open(csv_file, 'a'): what the file holds is kept. *)
OpenAppend(f) == f.lines

NewLinesAlwaysHeader(file_exists, row) == <<HeaderLine(HeaderCols), row>>

(* The header is written only when the file is new. *)
NewLines(file_exists, row) ==
    IF ~file_exists THEN <<HeaderLine(HeaderCols), row>> ELSE <<row>>

(* The result is [exc, file].  io is how the file system answers: "ok",   *)
(* "open_error" (open raises, nothing is created) or "write_error" (the    *)
(* file is opened, hence created, and no complete line reaches it).        *)
save_to_csv(f, ns, repo, pull_count, now, io) ==
    LET file_exists == f.exists
        timestamp == isoformat(now)
        row == RowLine(timestamp, ns, repo, pull_count)
    IN  CASE io = "open_error" -> [exc |-> "OSError", file |-> f]
          [] io = "write_error" ->
                [exc |-> "OSError", file |-> [exists |-> TRUE, lines |-> OpenAppend(f)]]
          [] OTHER ->
                [exc |-> "none",
                 file |-> [exists |-> TRUE,
                           lines |-> OpenAppend(f) \o NewLines(file_exists, row)]]

----------------------------------------------------------------------------
(* tracker.py: the driver loop *)

Printed(kind, repo, value) == [kind |-> kind, repo |-> repo, value |-> value]

(* f"{count:,}" formats numbers only. *)
Formattable(value) == value.type = "int"

(* The try block of one iteration: [exc, out, file, saving], saving being  *)
(* whether save_to_csv was called.                                         *)
TryBlock(f, repo, resp, now, io) ==
    LET r == get_pull_count(resp)
    IN  IF r.exc # "none"
        THEN [exc |-> r.exc, out |-> <<>>, file |-> f, saving |-> FALSE]
        ELSE IF ~Formattable(r.value)
        THEN [exc |-> "TypeError", out |-> <<>>, file |-> f, saving |-> FALSE]
        ELSE LET s == save_to_csv(f, namespace, repo, r.value.n, now, io)
                 pulls == Printed("pulls", repo, r.value.n)
             IN  IF s.exc # "none"
                 THEN [exc |-> s.exc, out |-> <<pulls>>, file |-> s.file, saving |-> TRUE]
                 ELSE [exc |-> "none", file |-> s.file, saving |-> TRUE,
                       out |-> <<pulls, Printed("saved", repo, r.value.n)>>]

ExceptHTTPErrorOnly(exc) == IF exc = "HTTPError" THEN "fetch_failed" ELSE "uncaught"

(* except requests.HTTPError ... except Exception: the line printed. *)
ExceptClauses(exc) == IF exc = "HTTPError" THEN "fetch_failed" ELSE "error_saving"

StartCollector ==
    /\ cpc = "idle" /\ vpc = "idle"
    /\ runs < MaxRuns
    /\ cpc' = "loop"
    /\ i' = 1
    /\ console' = <<>>
    /\ trace' = <<>>
    /\ fileAtStart' = file
    /\ runs' = runs + 1
    /\ UNCHANGED <<file, savedOk, createdEmpty, visualizerVars>>

(* One iteration of "for repo in repositories". *)
ProcessRepo ==
    /\ cpc = "loop"
    /\ i <= Len(repositories)
    /\ \E resp \in Responses, now \in 0..MaxTime, io \in IoOutcomes :
        LET repo == repositories[i]
            t == TryBlock(file, repo, resp, now, io)
            handled == IF t.exc = "none" THEN "none" ELSE ExceptClauses(t.exc)
            out == IF handled \in {"none", "uncaught"} THEN t.out
                   ELSE Append(t.out, Printed(handled, repo, 0))
        IN  /\ file' = t.file
            /\ console' = console \o out
            /\ trace' = Append(trace, [repo |-> repo, resp |-> resp,
                                       io |-> IF t.saving THEN io ELSE "none"])
            /\ savedOk' = IF t.saving /\ t.exc = "none" THEN savedOk + 1 ELSE savedOk
            /\ createdEmpty' = (createdEmpty \/ (t.saving /\ io = "write_error" /\ ~file.exists))
            /\ cpc' = IF handled = "uncaught" THEN "crashed" ELSE "loop"
            /\ i' = i + 1
    /\ UNCHANGED <<fileAtStart, runs, visualizerVars>>

FinishCollector ==
    /\ cpc = "loop"
    /\ i > Len(repositories)
    /\ cpc' = "done"
    /\ UNCHANGED <<file, i, console, trace, fileAtStart, runs, savedOk, createdEmpty,
                   visualizerVars>>

(* The process is gone: what it held in memory and printed is forgotten. *)
ExitCollector ==
    /\ cpc = "done"
    /\ cpc' = "idle"
    /\ i' = 1
    /\ console' = <<>>
    /\ trace' = <<>>
    /\ fileAtStart' = NoFile
    /\ UNCHANGED <<file, runs, savedOk, createdEmpty, visualizerVars>>


----------------------------------------------------------------------------
(* visualize_data.py: load_and_process_data *)

NoFrame == [ok |-> FALSE, columns |-> {}, rows |-> <<>>]

NaT == [nat |-> TRUE, aware |-> FALSE, off |-> 0, wall |-> 0]

(* The instant a timestamp denotes, in hours since the epoch (UTC). *)
Instant(ts) == ts.wall - ts.off

(* A first line that is not the header names the columns by its values. *)
ColumnNames(line) ==
    IF line.kind = "header" THEN Range(line.cols) ELSE {line.namespace, line.repository}

FrameRow(line) ==
    [timestamp |-> line.timestamp, namespace |-> line.namespace,
     repository |-> line.repository, pull_count |-> line.pull_count]

(* pd.read_csv: [exc, columns, rows]; the first line names the columns. *)
read_csv(f) ==
    IF ~f.exists THEN [exc |-> "FileNotFoundError", columns |-> {}, rows |-> <<>>]
    ELSE IF f.lines = <<>> THEN [exc |-> "EmptyDataError", columns |-> {}, rows |-> <<>>]
    ELSE [exc |-> "none", columns |-> ColumnNames(Head(f.lines)),
          rows |-> [k \in 1..(Len(f.lines) - 1) |-> FrameRow(f.lines[k + 1])]]

(* pd.to_datetime(..., errors='coerce') of one cell. *)
to_datetime(text) ==
    IF text.valid
    THEN [nat |-> FALSE, aware |-> text.aware, off |-> text.off, wall |-> text.wall]
    ELSE NaT

(* America/Los_Angeles: UTC-8, and UTC-7 in daylight-saving time. *)
PstOffset(instant) == IF instant >= DstStart THEN 0 - 7 ELSE 0 - 8

(* Timestamp.tz_convert(pst), datetime.astimezone(pst): same instant. *)
tz_convert(ts) ==
    LET instant == Instant(ts)
    IN  [nat |-> FALSE, aware |-> TRUE, off |-> PstOffset(instant),
         wall |-> instant + PstOffset(instant)]

pst_localize(ts) == [ts EXCEPT !.aware = TRUE, !.off = PstOffset(ts.wall)]

(* pytz.utc.localize(timestamp): the wall-clock reading is taken as UTC. *)
utc_localize(ts) == [ts EXCEPT !.aware = TRUE, !.off = 0]

convert_to_pst(ts) ==
    IF ts.nat THEN ts
    ELSE IF ts.aware THEN tz_convert(ts)
    ELSE tz_convert(utc_localize(ts))

(* Lines 21-39: the timestamp column parsed and converted. *)
ConvertColumn(rows) ==
    [k \in 1..Len(rows) |->
        [rows[k] EXCEPT !.timestamp = convert_to_pst(to_datetime(rows[k].timestamp))]]

dropna_none(rows) == rows

(* df.dropna(subset=['timestamp']) *)
dropna(rows) == SelectSeq(rows, LAMBDA r : ~r.timestamp.nat)

RECURSIVE SortedOrders(_, _)
SortedOrders(rows, idx) ==
    IF idx = {} THEN {<<>>}
    ELSE LET least == {j \in idx : \A k \in idx :
                          \/ rows[k].timestamp.nat
                          \/ /\ ~rows[j].timestamp.nat
                             /\ Instant(rows[j].timestamp) <= Instant(rows[k].timestamp)}
         IN  UNION {{<<rows[j]>> \o t : t \in SortedOrders(rows, idx \ {j})} : j \in least}

(* df.sort_values('timestamp'): the default sort is not stable, so rows   *)
(* with equal timestamps come out in any order; missing values go last.    *)
sort_values(rows) == SortedOrders(rows, 1..Len(rows))

(* The possible results: NoFrame is the None returned on any exception. *)
load_and_process_data(f) ==
    LET t == read_csv(f)
    IN  IF t.exc # "none" \/ "timestamp" \notin t.columns
        THEN {NoFrame}
        ELSE {[ok |-> TRUE, columns |-> t.columns \cup {"timestamp_pst"}, rows |-> s] :
                 s \in sort_values(dropna(ConvertColumn(t.rows)))}

----------------------------------------------------------------------------
(* visualize_data.py: create_individual_repo_graphs, create_summary_stats *)

RECURSIVE unique(_)
(* Series.unique(): the distinct values in order of first appearance. *)
unique(s) ==
    IF s = <<>> THEN <<>>
    ELSE <<Head(s)>> \o unique(SelectSeq(Tail(s), LAMBDA x : x # Head(s)))

RepositoryColumn(d) == [k \in 1..Len(d.rows) |-> d.rows[k].repository]

(* df[df['repository'] == repo] *)
SelectRepo(d, repo) == SelectSeq(d.rows, LAMBDA r : r.repository = repo)

(* One figure: named f'{namespace}_{repo}', plotting repo_data. *)
Figure(d, repo) ==
    LET repo_data == SelectRepo(d, repo)
        ns == repo_data[1].namespace
    IN  [name |-> ns \o "_" \o repo, namespace |-> ns, repository |-> repo,
         points |-> repo_data]

(* [exc, figures] *)
create_individual_repo_graphs(d) ==
    IF "repository" \notin d.columns THEN [exc |-> "KeyError", figures |-> <<>>]
    ELSE LET repos == unique(RepositoryColumn(d))
         IN  IF repos # <<>> /\ ~({"namespace", "pull_count"} \subseteq d.columns)
             THEN [exc |-> "KeyError", figures |-> <<>>]
             ELSE [exc |-> "none",
                   figures |-> [k \in 1..Len(repos) |-> Figure(d, repos[k])]]

Filename(repo_name) == "docker_hub_trends_" \o repo_name \o ".png"

(* fig.savefig(filename): a file of that name is overwritten. *)
savefig(disk, fig) ==
    {c \in disk : c.name # Filename(fig.name)} \cup {[fig EXCEPT !.name = Filename(fig.name)]}

RECURSIVE SaveAll(_, _)
SaveAll(disk, figures) ==
    IF figures = <<>> THEN disk ELSE SaveAll(savefig(disk, Head(figures)), Tail(figures))

avg_growth_rate_per_minute(total_growth, hours) ==
    IF hours > 0 THEN [num |-> total_growth, den |-> hours * 60] ELSE [num |-> 0, den |-> 1]

(* total_growth / hours if hours > 0 else 0, as the fraction num/den. *)
avg_growth_rate(total_growth, hours) ==
    IF hours > 0 THEN [num |-> total_growth, den |-> hours] ELSE [num |-> 0, den |-> 1]

RepoStats(d, repo) ==
    LET repo_data == SelectRepo(d, repo)
        current_pulls == repo_data[Len(repo_data)].pull_count
        initial_pulls == repo_data[1].pull_count
        total_growth == current_pulls - initial_pulls
        start_time == repo_data[1].timestamp
        end_time == repo_data[Len(repo_data)].timestamp
        hours == Instant(end_time) - Instant(start_time)
    IN  [repository |-> repo, namespace |-> repo_data[1].namespace,
         current_pulls |-> current_pulls, total_growth |-> total_growth,
         hours |-> hours, avg_growth_rate |-> avg_growth_rate(total_growth, hours),
         latest |-> end_time]

create_summary_stats(d) ==
    LET repos == unique(RepositoryColumn(d))
    IN  [k \in 1..Len(repos) |-> RepoStats(d, repos[k])]

----------------------------------------------------------------------------
(* visualize_data.py: main *)

(* Lines 147-155: load, and report the size of what was loaded. *)
VizLoad ==
    /\ vpc = "idle" /\ cpc = "idle"
    /\ \E d \in load_and_process_data(file) :
        /\ df' = d
        /\ IF ~d.ok
           THEN /\ vout' = <<"generating", "error_loading", "failed_to_load">>
                /\ vpc' = "failed"
           ELSE IF "repository" \notin d.columns
           THEN /\ vout' = <<"generating">>
                /\ vpc' = "crashed"
           ELSE /\ vout' = <<"generating", "loaded">>
                /\ vpc' = "loaded"
    /\ summary' = <<>>
    /\ saved' = <<>>
    /\ UNCHANGED <<file, charts, collectorVars>>

(* Lines 157-164: the figures are all built, then each is saved. *)
VizCharts ==
    /\ vpc = "loaded"
    /\ LET g == create_individual_repo_graphs(df)
       IN  IF g.exc # "none"
           THEN /\ vpc' = "crashed"
                /\ UNCHANGED <<charts, saved, vout>>
           ELSE /\ charts' = SaveAll(charts, g.figures)
                /\ saved' = [k \in 1..Len(g.figures) |-> Filename(g.figures[k].name)]
                /\ vout' = vout \o <<"creating">> \o [k \in 1..Len(g.figures) |-> "saved"]
                /\ vpc' = "charted"
    /\ UNCHANGED <<file, df, summary, collectorVars>>

(* Lines 166-172. *)
VizSummary ==
    /\ vpc = "charted"
    /\ summary' = create_summary_stats(df)
    /\ vout' = vout \o <<"summary", "complete">>
    /\ vpc' = "done"
    /\ UNCHANGED <<file, charts, df, saved, collectorVars>>

(* The process is gone; the chart files stay on disk. *)
VizExit ==
    /\ vpc \in {"done", "failed", "crashed"}
    /\ vpc' = "idle"
    /\ df' = NoFrame
    /\ vout' = <<>>
    /\ summary' = <<>>
    /\ saved' = <<>>
    /\ UNCHANGED <<file, charts, collectorVars>>

----------------------------------------------------------------------------
(* The tables handed to the visualizer alone *)

Naive(wall) == [valid |-> TRUE, aware |-> FALSE, off |-> 0, wall |-> wall]
Aware(wall, off) == [valid |-> TRUE, aware |-> TRUE, off |-> off, wall |-> wall]

TimestampTexts == {NoText, Naive(0), Naive(5), Aware(5, 0), Aware(0 - 3, 0 - 8)}

Names == {<<"lmcache", "vllm-openai">>, <<"lmcache", "lmstack-router">>,
          <<"other", "vllm-openai">>}

SampleLines ==
    {RowLine(t, n[1], n[2], c) : t \in TimestampTexts, n \in Names, c \in PullCounts}

Headers ==
    {HeaderCols,
     <<"namespace", "repository", "pull_count">>,
     <<"timestamp", "namespace", "pull_count">>,
     <<"timestamp", "repository", "pull_count">>,
     <<"timestamp", "namespace", "repository">>}

Tables ==
    {NoFile, [exists |-> TRUE, lines |-> <<>>]} \cup
    {[exists |-> TRUE, lines |-> <<HeaderLine(h)>> \o rows] :
        h \in Headers, rows \in UNION {[1..n -> SampleLines] : n \in 0..MaxRows}}

----------------------------------------------------------------------------

Init ==
    /\ file = NoFile
    /\ charts = {}
    /\ cpc = "idle" /\ i = 1 /\ console = <<>> /\ trace = <<>>
    /\ fileAtStart = NoFile /\ runs = 0 /\ savedOk = 0 /\ createdEmpty = FALSE
    /\ vpc = "idle" /\ df = NoFrame /\ vout = <<>> /\ summary = <<>> /\ saved = <<>>

Next ==
    \/ StartCollector
    \/ ProcessRepo
    \/ FinishCollector
    \/ ExitCollector
    \/ VizLoad
    \/ VizCharts
    \/ VizSummary
    \/ VizExit

Spec == Init /\ [][Next]_vars

(* The visualizer alone, on any table of the bounded set. *)
InitViz ==
    /\ file \in Tables
    /\ charts = {}
    /\ cpc = "idle" /\ i = 1 /\ console = <<>> /\ trace = <<>>
    /\ fileAtStart = NoFile /\ runs = 0 /\ savedOk = 0 /\ createdEmpty = FALSE
    /\ vpc = "idle" /\ df = NoFrame /\ vout = <<>> /\ summary = <<>> /\ saved = <<>>

NextViz == VizLoad \/ VizCharts \/ VizSummary \/ VizExit

SpecViz == InitViz /\ [][NextViz]_vars

----------------------------------------------------------------------------
(* Properties of the collector, checked under Spec *)

(* The lines the current collector run has appended to the table. *)
AppendedLines == SubSeq(file.lines, Len(fileAtStart.lines) + 1, Len(file.lines))

AppendedRows == SelectSeq(AppendedLines, LAMBDA l : l.kind = "row")

PrintedFor(kind, repo) == \E k \in 1..Len(console) :
    console[k].kind = kind /\ console[k].repo = repo

RowFor(repo) == \E k \in 1..Len(AppendedRows) : AppendedRows[k].repository = repo

(* C1: in one collector run every repository of the list is attempted      *)
(* exactly once and in list order, whatever the outcome of the ones before *)
(* it: no failure stops the loop, and none is attempted twice.             *)
C1_EveryRepositoryAttemptedOnce ==
    /\ cpc # "crashed"
    /\ cpc \in {"loop", "done"} => Len(trace) = i - 1
    /\ Len(trace) <= Len(repositories)
    /\ \A k \in 1..Len(trace) : trace[k].repo = repositories[k]
    /\ cpc = "done" => Len(trace) = Len(repositories)

C1_Witness ==
    /\ cpc = "done"
    /\ trace[1].resp = NetworkError
    /\ trace[2].io = "open_error"

Is2xx(status) == 200 <= status /\ status < 300

C3_HeaderThenRows ==
    /\ (file.exists /\ ~createdEmpty) =>
          /\ Len(file.lines) = savedOk + 1
          /\ file.lines[1] = HeaderLine(HeaderCols)
    /\ ~file.exists => (savedOk = 0 /\ file.lines = <<>>)
    /\ \A k \in 1..Len(file.lines) :
          file.lines[k].kind = "header" => (k = 1 /\ ~createdEmpty)

C3_Witness ==
    /\ savedOk = 2
    /\ ~createdEmpty
    /\ Len(file.lines) = 3
    /\ file.lines[2].kind = "row" /\ file.lines[3].kind = "row"

(* C4: the table is append-only: every step leaves what it held as a       *)
(* prefix of what it holds, and a step of the visualizer leaves it as is.  *)
C4_AppendOnly ==
    [][/\ file.exists => file'.exists
       /\ IsPrefix(file.lines, file'.lines)
       /\ (vpc # "idle" \/ vpc' # "idle") => file' = file]_vars

C4_Witness ==
    /\ Len(file.lines) = 3
    /\ savedOk = 2
    /\ vpc = "done"
    /\ Len(df.rows) = 2
    /\ charts # {}

FetchFailed(resp) == resp.net = "error" \/ resp.status \in 400..599

ReportedCount(resp) == IF resp.body.has THEN resp.body.pull_count.n ELSE 0

Saved == SelectSeq(trace, LAMBDA t : t.io = "ok")

(* C10: the rows a run appends are those of the repositories fetched and   *)
(* saved, in list order, with the reported pull count (0 without the       *)
(* field); a failed fetch (error status, network error) gives no row and   *)
(* is reported as a fetch failure, not as a save error.                    *)
C10_RowsAndFetchFailures ==
    cpc = "done" =>
        /\ Len(AppendedRows) = Len(Saved)
        /\ \A k \in 1..Len(Saved) :
              /\ AppendedRows[k].repository = Saved[k].repo
              /\ AppendedRows[k].namespace = namespace
              /\ AppendedRows[k].pull_count = ReportedCount(Saved[k].resp)
        /\ \A k \in 1..Len(trace) :
              FetchFailed(trace[k].resp) =>
                  /\ ~RowFor(trace[k].repo)
                  /\ PrintedFor("fetch_failed", trace[k].repo)
                  /\ ~PrintedFor("error_saving", trace[k].repo)

----------------------------------------------------------------------------
(* Properties of the visualizer, checked under SpecViz *)

FileRows == IF file.lines = <<>> THEN <<>> ELSE Tail(file.lines)

(* The instant a timestamp text stands for, one without zone read as UTC. *)
ExpectedInstant(text) == IF text.aware THEN text.wall - text.off ELSE text.wall

SameSample(l, r, instant) ==
    /\ ~r.timestamp.nat
    /\ Instant(r.timestamp) = instant
    /\ r.namespace = l.namespace
    /\ r.repository = l.repository
    /\ r.pull_count = l.pull_count

(* C5: the loaded frame holds exactly the rows whose timestamp parses,     *)
(* each as often as the table holds it, and in ascending order of the      *)
(* normalized timestamp.                                                   *)
C5_ParsedRowsSorted ==
    df.ok =>
        /\ \A k \in 1..Len(df.rows) : ~df.rows[k].timestamp.nat
        /\ Len(df.rows) = Cardinality({k \in 1..Len(FileRows) : FileRows[k].timestamp.valid})
        /\ \A k \in 1..Len(FileRows) :
              LET l == FileRows[k]
                  t == ExpectedInstant(l.timestamp)
              IN  l.timestamp.valid =>
                    Cardinality({j \in 1..Len(df.rows) : SameSample(l, df.rows[j], t)}) =
                    Cardinality({j \in 1..Len(FileRows) :
                                    /\ FileRows[j].timestamp.valid
                                    /\ ExpectedInstant(FileRows[j].timestamp) = t
                                    /\ FileRows[j].namespace = l.namespace
                                    /\ FileRows[j].repository = l.repository
                                    /\ FileRows[j].pull_count = l.pull_count})
        /\ \A a, b \in 1..Len(df.rows) :
              a < b => Instant(df.rows[a].timestamp) <= Instant(df.rows[b].timestamp)

C5_Witness ==
    /\ df.ok
    /\ Len(FileRows) = 2
    /\ ~FileRows[1].timestamp.valid
    /\ FileRows[2].timestamp.valid
    /\ Len(df.rows) = 1
    /\ df.rows[1].repository = FileRows[2].repository

(* C6: a timestamp without zone is normalized to the instant its reading   *)
(* denotes in UTC, in the target zone; a zone-aware one keeps its instant; *)
(* so a zone-naive and a zone-aware row of the same instant are loaded     *)
(* with equal timestamps.                                                  *)
C6_NaiveIsUtc ==
    df.ok =>
        /\ \A k \in 1..Len(FileRows) :
              LET l == FileRows[k]
                  t == ExpectedInstant(l.timestamp)
              IN  l.timestamp.valid =>
                    \E j \in 1..Len(df.rows) :
                        /\ SameSample(l, df.rows[j], t)
                        /\ df.rows[j].timestamp.aware
                        /\ df.rows[j].timestamp.off = PstOffset(t)
        /\ \A a, b \in 1..Len(FileRows) :
              LET x == FileRows[a]
                  y == FileRows[b]
              IN  (/\ x.timestamp.valid /\ ~x.timestamp.aware
                   /\ y.timestamp.valid /\ y.timestamp.aware
                   /\ x.timestamp.wall = y.timestamp.wall - y.timestamp.off) =>
                    \E j, m \in 1..Len(df.rows) :
                        /\ SameSample(x, df.rows[j], x.timestamp.wall)
                        /\ SameSample(y, df.rows[m], x.timestamp.wall)
                        /\ df.rows[j].timestamp = df.rows[m].timestamp

C6_Witness ==
    /\ df.ok
    /\ Len(FileRows) = 2
    /\ FileRows[1].timestamp = Naive(5)
    /\ FileRows[2].timestamp = Aware(0 - 3, 0 - 8)
    /\ Len(df.rows) = 2
    /\ df.rows[1].timestamp = df.rows[2].timestamp

ReposOf(rows) == {rows[k].repository : k \in 1..Len(rows)}

RowsOf(rows, repo) == {r \in Range(rows) : r.repository = repo}

(* C7: for every repository of the loaded table the summary reports the    *)
(* pull count of its latest sample minus that of its earliest one, and     *)
(* that growth divided by the hours between the two, or 0 when no time     *)
(* lies between them; 100 and 150 pulls 5 hours apart give 50 and 10.      *)
C7_GrowthAndRate ==
    vpc = "done" =>
        /\ Len(summary) = Cardinality(ReposOf(df.rows))
        /\ \A repo \in ReposOf(df.rows) :
              \E k \in 1..Len(summary) :
                  LET s == summary[k]
                      mine == RowsOf(df.rows, repo)
                  IN  /\ s.repository = repo
                      /\ \E e, l \in mine :
                            /\ \A r \in mine :
                                  /\ Instant(e.timestamp) <= Instant(r.timestamp)
                                  /\ Instant(r.timestamp) <= Instant(l.timestamp)
                            /\ s.total_growth = l.pull_count - e.pull_count
                            /\ s.current_pulls = l.pull_count
                            /\ LET elapsed == Instant(l.timestamp) - Instant(e.timestamp)
                               IN  /\ s.hours = elapsed
                                   /\ elapsed > 0 =>
                                         s.avg_growth_rate.num * elapsed =
                                         s.total_growth * s.avg_growth_rate.den
                                   /\ elapsed = 0 => s.avg_growth_rate.num = 0
                                   /\ s.avg_growth_rate.den > 0
                            /\ (/\ Len(SelectSeq(df.rows, LAMBDA r : r.repository = repo)) = 2
                                /\ e.pull_count = 100 /\ l.pull_count = 150
                                /\ Instant(l.timestamp) - Instant(e.timestamp) = 5) =>
                                  /\ s.total_growth = 50
                                  /\ s.avg_growth_rate.num = 10 * s.avg_growth_rate.den

C7_Witness ==
    /\ vpc = "done"
    /\ Len(FileRows) = 2
    /\ FileRows[1].timestamp = Naive(5) /\ FileRows[1].pull_count = 150
    /\ FileRows[2].timestamp = Naive(0) /\ FileRows[2].pull_count = 100
    /\ FileRows[1].repository = FileRows[2].repository
    /\ Len(summary) = 1
    /\ summary[1].total_growth = 50
    /\ summary[1].avg_growth_rate = [num |-> 50, den |-> 5]

LoadFailure ==
    \/ ~file.exists
    \/ file.lines = <<>>
    \/ ~(Range(HeaderCols) \subseteq ColumnNames(Head(file.lines)))

(* C8: on every failure to load the table (file missing, malformed table,  *)
(* missing column) the visualizer reports it, writes no chart, prints no   *)
(* summary and ends without raising.                                       *)
C8_LoadFailureReported ==
    (vpc # "idle" /\ LoadFailure) =>
        /\ vpc = "failed"
        /\ \E k \in 1..Len(vout) : vout[k] = "failed_to_load"
        /\ saved = <<>>
        /\ summary = <<>>

(* C9: a run on a loaded table writes one chart file per distinct          *)
(* repository, named from its namespace and name, and each chart holds     *)
(* only samples of the namespace/repository it is named after.             *)
C9_OneChartPerRepository ==
    vpc \in {"charted", "done"} =>
        /\ Cardinality(Range(saved)) = Cardinality(ReposOf(df.rows))
        /\ \A c \in charts :
              /\ c.name = Filename(c.namespace \o "_" \o c.repository)
              /\ \A p \in Range(c.points) :
                    p.namespace = c.namespace /\ p.repository = c.repository

=============================================================================
